---- MODULE Spec2Model ----
(***************************************************************************)
(* Model of variant26.py: the regex tokenizer (Lexer.tokenize), the        *)
(* recursive-descent parser (class Parser) run as a pushdown machine with  *)
(* an explicit call stack, and main's reporting of the outcome.            *)
(*                                                                         *)
(* A text is a sequence of one-character strings.  A Value is a record     *)
(* [t, n, items]: t = "num" with n = the float, or t = "obj" with items =  *)
(* the dict's (key, value) entries in dict order.                          *)
(***************************************************************************)
EXTENDS Integers, Sequences, FiniteSets, TLC

VARIABLES file, text, phase, lpos, lineno, col, tokens, matches,
          pos, constants, stack, ret, outcome, err,
          stdout, stderr, exitcode

vars == <<file, text, phase, lpos, lineno, col, tokens, matches,
          pos, constants, stack, ret, outcome, err,
          stdout, stderr, exitcode>>

lexvars == <<lpos, lineno, col, tokens, matches>>
parsevars == <<pos, constants, stack, ret, outcome, err>>
outvars == <<stdout, stderr, exitcode>>

\* ------------------------------------------------------------------ bounds

\* Longest text drawn from all strings over LexChars.
MaxChars == 3
\* Longest text drawn as a concatenation of Atoms (one lexeme each).
MaxAtoms == 3
\* Longest text drawn as a concatenation of Stmts (one statement each).
MaxStmts == 3

\* ------------------------------------------------------------- characters

Digits == {"0", "1", "2", "3", "4", "5", "6", "7", "8", "9"}

IdChars == {"_", "a", "b", "c", "d", "e", "f", "g", "h", "i", "j", "k", "l",
            "m", "n", "o", "p", "q", "r", "s", "t", "u", "v", "w", "x", "y",
            "z"}

Spaces == {" ", "\t", "\n", "\r"}

DigitVal(c) ==
    CASE c = "0" -> 0 [] c = "1" -> 1 [] c = "2" -> 2 [] c = "3" -> 3
      [] c = "4" -> 4 [] c = "5" -> 5 [] c = "6" -> 6 [] c = "7" -> 7
      [] c = "8" -> 8 [] c = "9" -> 9

\* text[a..b] as a sequence (empty when b < a).
Slice(s, a, b) == [i \in 1..(b - a + 1) |-> s[a + i - 1]]

\* Length of the longest run of characters of set S starting at index p.
RunLen(s, p, S) ==
    (CHOOSE q \in p..(Len(s) + 1) :
         /\ q = Len(s) + 1 \/ s[q] \notin S
         /\ \A r \in p..(q - 1) : s[r] \in S) - p

\* ------------------------------------------------------------------ lexer

\* Lexer.patterns, in list order.
Patterns == <<"NUMBER", "DEF", "LET", "LPAREN", "RPAREN", "LBRACE", "RBRACE",
              "COMMA", "SEMICOLON", "DOLLAR", "ID", "WHITESPACE">>

StartsWith(s, p, w) ==
    /\ p + Len(w) - 1 <= Len(s)
    /\ \A i \in 1..Len(w) : s[p + i - 1] = w[i]

\* Variant of NumberLen for the pattern \d+(\.\d+)?|\.\d+ : an integer part
\* alone is a number too.
NumberLenInteger(s, p) ==
    LET d == RunLen(s, p, Digits)
        f == RunLen(s, p + d + 1, Digits)
    IN  IF p + d <= Len(s) /\ s[p + d] = "." /\ f >= 1 THEN d + 1 + f ELSE d

\* \d*\.\d+ : greedy digits, a dot, one or more digits.  Giving back digits
\* of \d* never helps (the next character is then a digit, not the dot).
NumberLen(s, p) ==
    LET d == RunLen(s, p, Digits)
        f == RunLen(s, p + d + 1, Digits)
    IN  IF p + d <= Len(s) /\ s[p + d] = "." /\ f >= 1 THEN d + 1 + f ELSE 0

\* Length of the match of the named pattern at index p of s, 0 for no match.
MatchLen(kind, s, p) ==
    CASE kind = "NUMBER"     -> NumberLen(s, p)
      [] kind = "DEF"        -> IF StartsWith(s, p, <<"d", "e", "f">>) THEN 3 ELSE 0
      [] kind = "LET"        -> IF StartsWith(s, p, <<"l", "e", "t">>) THEN 3 ELSE 0
      [] kind = "LPAREN"     -> IF StartsWith(s, p, <<"(">>) THEN 1 ELSE 0
      [] kind = "RPAREN"     -> IF StartsWith(s, p, <<")">>) THEN 1 ELSE 0
      [] kind = "LBRACE"     -> IF StartsWith(s, p, <<"{">>) THEN 1 ELSE 0
      [] kind = "RBRACE"     -> IF StartsWith(s, p, <<"}">>) THEN 1 ELSE 0
      [] kind = "COMMA"      -> IF StartsWith(s, p, <<",">>) THEN 1 ELSE 0
      [] kind = "SEMICOLON"  -> IF StartsWith(s, p, <<";">>) THEN 1 ELSE 0
      [] kind = "DOLLAR"     -> IF StartsWith(s, p, <<"$">>) THEN 1 ELSE 0
      [] kind = "ID"         -> RunLen(s, p, IdChars)
      [] kind = "WHITESPACE" -> RunLen(s, p, Spaces)

\* Variant of FirstPattern: the longest match wins, the first in list order
\* among equally long ones.
FirstPatternLongest(s, p) ==
    LET hits == {i \in 1..Len(Patterns) : MatchLen(Patterns[i], s, p) > 0}
    IN  IF hits = {} THEN 0
        ELSE CHOOSE i \in hits :
                 \A j \in hits :
                     \/ MatchLen(Patterns[i], s, p) > MatchLen(Patterns[j], s, p)
                     \/ /\ MatchLen(Patterns[i], s, p) = MatchLen(Patterns[j], s, p)
                        /\ i <= j

\* The alternation (?P<NUMBER>..)|(?P<DEF>..)|... at index p: the first
\* alternative in list order that matches wins; 0 when none matches.
FirstPattern(s, p) ==
    LET hits == {i \in 1..Len(Patterns) : MatchLen(Patterns[i], s, p) > 0}
    IN  IF hits = {} THEN 0
        ELSE CHOOSE i \in hits : \A j \in hits : i <= j

\* Variant of Search: the scan gives up at a character no pattern matches.
SearchStopsAtUnmatched(s, p) ==
    IF p <= Len(s) /\ FirstPattern(s, p) # 0 THEN p ELSE Len(s) + 1

\* re.finditer's search from scan position p: the leftmost index >= p at
\* which the alternation matches; Len(s) + 1 when there is none.
Search(s, p) ==
    CHOOSE q \in p..(Len(s) + 1) :
        /\ q = Len(s) + 1 \/ FirstPattern(s, q) # 0
        /\ \A r \in p..(q - 1) : FirstPattern(s, r) = 0

\* Number of newlines in a sequence of characters.
CountNewlines(s) == Cardinality({i \in 1..Len(s) : s[i] = "\n"})

\* text.rfind('\n', 0, start) as a 0-based offset, -1 when absent; start is
\* the 0-based offset of the match.
RFindNewline(s, start) ==
    LET found == {i \in 1..start : s[i] = "\n"}
    IN  IF found = {} THEN -1
        ELSE (CHOOSE i \in found : \A j \in found : j <= i) - 1

Token(type, value, line, c) ==
    [type |-> type, value |-> value, lineno |-> line, col |-> c]

\* 'ID' matches whose text is a keyword are retyped (Lexer.keywords).
Keyword(kind, value) ==
    IF kind = "ID" /\ value = <<"d", "e", "f">> THEN "DEF"
    ELSE IF kind = "ID" /\ value = <<"l", "e", "t">> THEN "LET"
    ELSE kind

\* ----------------------------------------------------------------- values

NoValue == [t |-> "none", n |-> <<0, 0>>, items |-> <<>>]
Num(n) == [t |-> "num", n |-> n, items |-> <<>>]
Obj(items) == [t |-> "obj", n |-> <<0, 0>>, items |-> items]

\* The digits of a sequence of characters read as a decimal integer.
RECURSIVE DigitsToInt(_)
DigitsToInt(s) ==
    IF s = <<>> THEN 0
    ELSE 10 * DigitsToInt(SubSeq(s, 1, Len(s) - 1)) + DigitVal(s[Len(s)])

\* m / 10^k in lowest decimal terms (trailing zeros of the fraction dropped).
RECURSIVE Normalize(_, _)
Normalize(m, k) ==
    IF k > 0 /\ m % 10 = 0 THEN Normalize(m \div 10, k - 1) ELSE <<m, k>>

\* float(token.value) for a NUMBER lexeme "ddd.fff": the number it denotes,
\* as <<m, k>> meaning m / 10^k, so that ".5", "0.5" and "0.50" are equal.
Float(value) ==
    LET d == RunLen(value, 1, Digits)
        whole == SubSeq(value, 1, d)
        frac == SubSeq(value, d + 2, Len(value))
    IN  Normalize(DigitsToInt(whole \o frac), Len(frac))

\* Python dict as the sequence of its items in dict order.
DictKeys(d) == [i \in 1..Len(d) |-> d[i].k]
DictHas(d, key) == \E i \in 1..Len(d) : d[i].k = key
DictGet(d, key) == d[CHOOSE i \in 1..Len(d) : d[i].k = key].v

\* Variant of DictSet: an existing key keeps its value (setdefault).
DictSetKeepFirst(d, key, value) ==
    IF DictHas(d, key) THEN d ELSE Append(d, [k |-> key, v |-> value])

\* Variant of DictSet: an existing key is removed and appended anew.
DictSetMoveToEnd(d, key, value) ==
    LET keep == {i \in 1..Len(d) : d[i].k # key}
        nth(m) == CHOOSE i \in keep : Cardinality({j \in keep : j < i}) = m - 1
    IN  Append([m \in 1..Cardinality(keep) |-> d[nth(m)]],
               [k |-> key, v |-> value])

\* d[key] = value: an existing key keeps its place and takes the new value,
\* a new key is appended.
DictSet(d, key, value) ==
    IF DictHas(d, key)
    THEN [i \in 1..Len(d) |-> IF d[i].k = key THEN [k |-> key, v |-> value]
                                             ELSE d[i]]
    ELSE Append(d, [k |-> key, v |-> value])

\* ----------------------------------------------------------------- inputs

LexChars == {"d", "e", "f", "5", ".", " ", "#"}

Atoms == { <<"d", "e", "f">>, <<"l", "e", "t">>, <<"a">>, <<".", "5">>,
           <<"5">>, <<"$">>, <<"(">>, <<"{">>, <<"}">> }

Stmts == { <<"d", "e", "f", " ", "a", ".", "5", ";">>,
           <<"d", "e", "f", " ", "a", "\n", "1", ".", "0", ";">>,
           <<"d", "e", "f", " ", "b", "$", "(", "a", ")", ";">>,
           <<"x", "$", "(", "b", ")", ",">>,
           <<"x", "{", "a", ".", "5", " ", "b", ".", "7", ",", "a", "{",
             "}", "}">>,
           <<"y", " ", "5", "{", "b", "$", "(", "a", ")", "}">> }

\* All concatenations of at most n members of the set W of texts.
RECURSIVE Concats(_, _)
Concats(W, n) ==
    IF n = 0 THEN { <<>> }
    ELSE LET shorter == Concats(W, n - 1)
         IN  shorter \cup { s \o w : s \in shorter, w \in W }

Inputs ==
    Concats({ <<c>> : c \in LexChars }, MaxChars)
        \cup Concats(Atoms, MaxAtoms)
        \cup Concats(Stmts, MaxStmts)

\* ------------------------------------------------------------------- state

NoErr == [expected |-> "", found |-> "", lineno |-> 0, col |-> 0,
          name |-> <<>>, attr |-> ""]

NoRet == [key |-> <<>>, value |-> NoValue]

Frame(fn, pc) == [fn |-> fn, pc |-> pc, name |-> <<>>, dict |-> <<>>]

Init ==
    /\ \/ file = "ok" /\ text \in Inputs
       \/ file = "missing" /\ text = <<>>
    /\ phase = "read"
    /\ lpos = 1
    /\ lineno = 1
    /\ col = 1
    /\ tokens = <<>>
    /\ matches = <<>>
    /\ pos = 0
    /\ constants = <<>>
    /\ stack = <<>>
    /\ ret = NoRet
    /\ outcome = "none"
    /\ err = NoErr
    /\ stdout = <<>>
    /\ stderr = <<>>
    /\ exitcode = -1

\* -------------------------------------------------------------------- main

\* main: open and read the input file; a missing file is reported and ends
\* the process with status 1, otherwise Lexer(text) is constructed.
MainRead ==
    /\ phase = "read"
    /\ IF file = "missing"
       THEN /\ phase' = "done"
            /\ stdout' = Append(stdout, [kind |-> "file_not_found",
                                         exc |-> "FileNotFoundError",
                                         err |-> NoErr, doc |-> NoValue])
            /\ exitcode' = 1
            /\ UNCHANGED stderr
       ELSE /\ phase' = "lex"
            /\ UNCHANGED outvars
    /\ UNCHANGED <<file, text, lexvars, parsevars>>

\* ------------------------------------------------------- Lexer.tokenize

\* The match object mo of one iteration of the finditer loop, for the match
\* of pattern number k starting at index q (1-based): mo.group(), and the
\* 0-based column of mo.start().
MoLen(q, k) == MatchLen(Patterns[k], text, q)
MoValue(q, n) == Slice(text, q, q + n - 1)
MoCol(q) == (q - 1) - RFindNewline(text, q - 1) - 1

\* One iteration of the finditer loop whose match is not whitespace: the
\* token is appended with the current lineno and the 0-based column of the
\* match.
LexToken ==
    /\ phase = "lex"
    /\ \E q \in {Search(text, lpos)} :
       /\ q <= Len(text)
       /\ \E k \in {FirstPattern(text, q)} :
          /\ Patterns[k] # "WHITESPACE"
          /\ \E n \in {MoLen(q, k)} :
             \E value \in {MoValue(q, n)} :
                /\ tokens' = Append(tokens,
                                    Token(Keyword(Patterns[k], value), value,
                                          lineno, MoCol(q)))
                /\ matches' = Append(matches, [start |-> q - 1,
                                               end |-> q - 1 + n])
                /\ col' = col + n
                /\ lpos' = q + n
    /\ UNCHANGED <<file, text, phase, lineno, parsevars, outvars>>

\* One iteration of the finditer loop whose match is whitespace: no token,
\* only the line and column counters move.
LexWhitespace ==
    /\ phase = "lex"
    /\ \E q \in {Search(text, lpos)} :
       /\ q <= Len(text)
       /\ \E k \in {FirstPattern(text, q)} :
          /\ Patterns[k] = "WHITESPACE"
          /\ \E n \in {MoLen(q, k)} :
             \E newlines \in {CountNewlines(MoValue(q, n))} :
                /\ IF newlines > 0
                   THEN lineno' = lineno + newlines /\ col' = 1
                   ELSE col' = col + n /\ UNCHANGED lineno
                /\ lpos' = q + n
    /\ UNCHANGED <<file, text, phase, tokens, matches, parsevars, outvars>>

\* finditer is exhausted: tokenize returns self.tokens; main constructs
\* Parser(tokens) and calls parse().
LexEnd ==
    /\ phase = "lex"
    /\ Search(text, lpos) > Len(text)
    /\ lpos' = Len(text) + 1
    /\ phase' = "parse"
    /\ pos' = 0
    /\ constants' = <<>>
    /\ stack' = <<Frame("parse", "loop")>>
    /\ UNCHANGED <<file, text, lineno, col, tokens, matches, ret, outcome, err,
                   outvars>>

\* ------------------------------------------------------------------ Parser

Top == stack[Len(stack)]
SetTop(f) == [stack EXCEPT ![Len(stack)] = f]
Call(f, callee) == Append(SetTop(f), callee)
Return == SubSeq(stack, 1, Len(stack) - 1)

At(fn, pc) ==
    /\ phase = "parse"
    /\ outcome = "none"
    /\ stack # <<>>
    /\ Top.fn = fn
    /\ Top.pc = pc

\* Parser.current_token: the token under the cursor, None past the end.
HasToken == pos < Len(tokens)
CurrentToken == tokens[pos + 1]
CurrentType == IF HasToken THEN CurrentToken.type ELSE "None"

\* An exception leaves every frame of the parser.
Raise(kind, e) ==
    /\ outcome' = kind
    /\ err' = e
    /\ stack' = <<>>

\* Reading an attribute of None (token.type, token.lineno).
RaiseNoneAttr(attr) ==
    Raise("AttributeError", [NoErr EXCEPT !.attr = attr])

\* The else branch of Parser.eat: found is the token's type or 'EOF', and
\* the message is formatted with token.lineno and token.col of that token.
EatFails(token_type) ==
    IF HasToken
    THEN Raise("SyntaxError",
               [NoErr EXCEPT !.expected = token_type,
                             !.found = CurrentToken.type,
                             !.lineno = CurrentToken.lineno,
                             !.col = CurrentToken.col])
    ELSE RaiseNoneAttr("lineno")

\* Variant of Eat: the cursor is left where it is on success.
EatNoAdvance(token_type, after) ==
    IF HasToken /\ CurrentToken.type = token_type
    THEN /\ pos' = pos
         /\ stack' = after
         /\ UNCHANGED <<outcome, err>>
    ELSE /\ EatFails(token_type)
         /\ UNCHANGED pos

\* Parser.eat(token_type), continuing with the stack `after` on success.
Eat(token_type, after) ==
    IF HasToken /\ CurrentToken.type = token_type
    THEN /\ pos' = pos + 1
         /\ stack' = after
         /\ UNCHANGED <<outcome, err>>
    ELSE /\ EatFails(token_type)
         /\ UNCHANGED pos

\* Parser.parse, loop head: a DEF token starts parse_constant, any other
\* token starts parse_pair, no token returns result.
ParseLoop ==
    /\ At("parse", "loop")
    /\ IF HasToken
       THEN /\ IF CurrentToken.type = "DEF"
               THEN stack' = Call(Top, Frame("parse_constant", "eat_def"))
               ELSE stack' = Call([Top EXCEPT !.pc = "store"],
                                  Frame("parse_pair", "eat_id"))
            /\ UNCHANGED <<ret, outcome>>
       ELSE /\ stack' = <<>>
            /\ ret' = [key |-> <<>>, value |-> Obj(Top.dict)]
            /\ outcome' = "ok"
    /\ UNCHANGED <<file, text, phase, lexvars, pos, constants, err, outvars>>

\* Parser.parse: result[key] = value.
ParseStore ==
    /\ At("parse", "store")
    /\ stack' = SetTop([Top EXCEPT !.pc = "loop",
                                   !.dict = DictSet(Top.dict, ret.key, ret.value)])
    /\ UNCHANGED <<file, text, phase, lexvars, pos, constants, ret, outcome,
                   err, outvars>>

\* Parser.parse_constant: self.eat('DEF').
ConstEatDef ==
    /\ At("parse_constant", "eat_def")
    /\ Eat("DEF", SetTop([Top EXCEPT !.pc = "eat_id"]))
    /\ UNCHANGED <<file, text, phase, lexvars, constants, ret, outvars>>

\* Parser.parse_constant: name = self.eat('ID').value.
ConstEatId ==
    /\ At("parse_constant", "eat_id")
    /\ Eat("ID", SetTop([Top EXCEPT !.pc = "value",
                                    !.name = IF HasToken THEN CurrentToken.value
                                                         ELSE <<>>]))
    /\ UNCHANGED <<file, text, phase, lexvars, constants, ret, outvars>>

\* Parser.parse_constant: value_token.type is read without a None check; a
\* NUMBER is converted and eaten here, anything else goes to parse_value.
ConstValue ==
    /\ At("parse_constant", "value")
    /\ IF ~HasToken
       THEN RaiseNoneAttr("type") /\ UNCHANGED <<pos, ret>>
       ELSE IF CurrentToken.type = "NUMBER"
       THEN /\ ret' = [key |-> <<>>, value |-> Num(Float(CurrentToken.value))]
            /\ Eat("NUMBER", SetTop([Top EXCEPT !.pc = "store"]))
       ELSE /\ stack' = Call([Top EXCEPT !.pc = "store"],
                             Frame("parse_value", "dispatch"))
            /\ UNCHANGED <<pos, ret, outcome, err>>
    /\ UNCHANGED <<file, text, phase, lexvars, constants, outvars>>

\* Parser.parse_constant: self.constants[name] = value, then
\* self.eat('SEMICOLON') and return.
ConstStore ==
    /\ At("parse_constant", "store")
    /\ constants' = DictSet(constants, Top.name, ret.value)
    /\ Eat("SEMICOLON", Return)
    /\ UNCHANGED <<file, text, phase, lexvars, ret, outvars>>

\* Parser.parse_pair: key = self.eat('ID').value; value = self.parse_value().
PairEatId ==
    /\ At("parse_pair", "eat_id")
    /\ Eat("ID", Call([Top EXCEPT !.pc = "comma",
                                  !.name = IF HasToken THEN CurrentToken.value
                                                       ELSE <<>>],
                      Frame("parse_value", "dispatch")))
    /\ UNCHANGED <<file, text, phase, lexvars, constants, ret, outvars>>

\* Variant of PairComma: the comma after a pair is required.
PairCommaRequired ==
    /\ At("parse_pair", "comma")
    /\ Eat("COMMA", Return)
    /\ ret' = [key |-> Top.name, value |-> ret.value]
    /\ UNCHANGED <<file, text, phase, lexvars, constants, outvars>>

\* Parser.parse_pair: an optional COMMA is eaten, then (key, value) returns.
PairComma ==
    /\ At("parse_pair", "comma")
    /\ IF HasToken /\ CurrentToken.type = "COMMA"
       THEN Eat("COMMA", Return)
       ELSE stack' = Return /\ UNCHANGED <<pos, outcome, err>>
    /\ ret' = [key |-> Top.name, value |-> ret.value]
    /\ UNCHANGED <<file, text, phase, lexvars, constants, outvars>>

\* Parser.parse_value: token.type is read without a None check; DOLLAR,
\* LBRACE and NUMBER select the production, anything else is a SyntaxError.
ValueDispatch ==
    /\ At("parse_value", "dispatch")
    /\ IF ~HasToken
       THEN RaiseNoneAttr("type") /\ UNCHANGED <<pos, ret>>
       ELSE IF CurrentToken.type = "DOLLAR"
       THEN /\ stack' = Call([Top EXCEPT !.pc = "return"],
                             Frame("parse_const_eval", "eat_dollar"))
            /\ UNCHANGED <<pos, ret, outcome, err>>
       ELSE IF CurrentToken.type = "LBRACE"
       THEN /\ stack' = Call([Top EXCEPT !.pc = "return"],
                             Frame("parse_dict", "eat_lbrace"))
            /\ UNCHANGED <<pos, ret, outcome, err>>
       ELSE IF CurrentToken.type = "NUMBER"
       THEN /\ Eat("NUMBER", Return)
            /\ ret' = [key |-> <<>>, value |-> Num(Float(CurrentToken.value))]
       ELSE /\ Raise("SyntaxError",
                     [NoErr EXCEPT !.found = CurrentToken.type,
                                   !.lineno = CurrentToken.lineno])
            /\ UNCHANGED <<pos, ret>>
    /\ UNCHANGED <<file, text, phase, lexvars, constants, outvars>>

\* Parser.parse_value: return what parse_const_eval or parse_dict returned.
ValueReturn ==
    /\ At("parse_value", "return")
    /\ stack' = Return
    /\ UNCHANGED <<file, text, phase, lexvars, pos, constants, ret, outcome,
                   err, outvars>>

\* Parser.parse_const_eval: self.eat('DOLLAR').
ConstEvalEatDollar ==
    /\ At("parse_const_eval", "eat_dollar")
    /\ Eat("DOLLAR", SetTop([Top EXCEPT !.pc = "eat_lparen"]))
    /\ UNCHANGED <<file, text, phase, lexvars, constants, ret, outvars>>

\* Parser.parse_const_eval: self.eat('LPAREN').
ConstEvalEatLparen ==
    /\ At("parse_const_eval", "eat_lparen")
    /\ Eat("LPAREN", SetTop([Top EXCEPT !.pc = "eat_id"]))
    /\ UNCHANGED <<file, text, phase, lexvars, constants, ret, outvars>>

\* Parser.parse_const_eval: name = self.eat('ID').value.
ConstEvalEatId ==
    /\ At("parse_const_eval", "eat_id")
    /\ Eat("ID", SetTop([Top EXCEPT !.pc = "eat_rparen",
                                    !.name = IF HasToken THEN CurrentToken.value
                                                         ELSE <<>>]))
    /\ UNCHANGED <<file, text, phase, lexvars, constants, ret, outvars>>

\* Parser.parse_const_eval: self.eat('RPAREN').
ConstEvalEatRparen ==
    /\ At("parse_const_eval", "eat_rparen")
    /\ Eat("RPAREN", SetTop([Top EXCEPT !.pc = "lookup"]))
    /\ UNCHANGED <<file, text, phase, lexvars, constants, ret, outvars>>

\* Parser.parse_const_eval: NameError unless name is in self.constants,
\* otherwise return self.constants[name].
ConstEvalLookup ==
    /\ At("parse_const_eval", "lookup")
    /\ IF DictHas(constants, Top.name)
       THEN /\ ret' = [key |-> <<>>, value |-> DictGet(constants, Top.name)]
            /\ stack' = Return
            /\ UNCHANGED <<outcome, err>>
       ELSE /\ Raise("NameError", [NoErr EXCEPT !.name = Top.name])
            /\ UNCHANGED ret
    /\ UNCHANGED <<file, text, phase, lexvars, pos, constants, outvars>>

\* Parser.parse_dict: self.eat('LBRACE'); dict_val = {}.
DictEatLbrace ==
    /\ At("parse_dict", "eat_lbrace")
    /\ Eat("LBRACE", SetTop([Top EXCEPT !.pc = "loop", !.dict = <<>>]))
    /\ UNCHANGED <<file, text, phase, lexvars, constants, ret, outvars>>

\* Parser.parse_dict, loop head: any token but RBRACE starts parse_pair;
\* otherwise self.eat('RBRACE') and dict_val returns.
DictLoop ==
    /\ At("parse_dict", "loop")
    /\ IF HasToken /\ CurrentToken.type # "RBRACE"
       THEN /\ stack' = Call([Top EXCEPT !.pc = "store"],
                             Frame("parse_pair", "eat_id"))
            /\ UNCHANGED <<pos, ret, outcome, err>>
       ELSE /\ Eat("RBRACE", Return)
            /\ ret' = IF HasToken THEN [key |-> <<>>, value |-> Obj(Top.dict)]
                                  ELSE ret
    /\ UNCHANGED <<file, text, phase, lexvars, constants, outvars>>

\* Variant of DictStore: the key of a nested pair is entered into the
\* constants as well.
DictStoreDefines ==
    /\ At("parse_dict", "store")
    /\ stack' = SetTop([Top EXCEPT !.pc = "loop",
                                   !.dict = DictSet(Top.dict, ret.key, ret.value)])
    /\ constants' = DictSet(constants, ret.key, ret.value)
    /\ UNCHANGED <<file, text, phase, lexvars, pos, ret, outcome, err, outvars>>

\* Parser.parse_dict: dict_val[key] = value.
DictStore ==
    /\ At("parse_dict", "store")
    /\ stack' = SetTop([Top EXCEPT !.pc = "loop",
                                   !.dict = DictSet(Top.dict, ret.key, ret.value)])
    /\ UNCHANGED <<file, text, phase, lexvars, pos, constants, ret, outcome,
                   err, outvars>>

\* ------------------------------------------------------------ main, output

\* Code-point order of the characters of keys.
Alphabet == <<"_", "a", "b", "c", "d", "e", "f", "g", "h", "i", "j", "k", "l",
              "m", "n", "o", "p", "q", "r", "s", "t", "u", "v", "w", "x", "y",
              "z">>

Rank(c) == CHOOSE i \in 1..Len(Alphabet) : Alphabet[i] = c

\* a < b for strings, as Python compares them.
RECURSIVE KeyLess(_, _)
KeyLess(a, b) ==
    IF b = <<>> THEN FALSE
    ELSE IF a = <<>> THEN TRUE
    ELSE IF Head(a) # Head(b) THEN Rank(Head(a)) < Rank(Head(b))
    ELSE KeyLess(Tail(a), Tail(b))

\* The items of a dict sorted by key (keys are unique).
SortItems(d) ==
    [i \in 1..Len(d) |->
        d[CHOOSE j \in 1..Len(d) :
              Cardinality({m \in 1..Len(d) : KeyLess(d[m].k, d[j].k)}) = i - 1]]

\* convert_to_yaml: yaml.dump with its default sort_keys, which emits every
\* mapping with its keys sorted; the document rendered is the sorted tree.
RECURSIVE YamlDump(_)
YamlDump(v) ==
    IF v.t = "obj"
    THEN LET sorted == SortItems(v.items)
         IN  Obj([i \in 1..Len(sorted) |->
                     [k |-> sorted[i].k, v |-> YamlDump(sorted[i].v)]])
    ELSE v

\* main: parse() returned; the document is dumped and printed.
MainOutput ==
    /\ phase = "parse"
    /\ outcome = "ok"
    /\ stdout' = Append(stdout, [kind |-> "yaml", exc |-> "", err |-> NoErr,
                                 doc |-> YamlDump(ret.value)])
    /\ exitcode' = 0
    /\ phase' = "done"
    /\ UNCHANGED <<file, text, lexvars, parsevars, stderr>>

\* main: except (SyntaxError, NameError): the message is printed on stdout
\* and the process exits with status 1.
MainParseError ==
    /\ phase = "parse"
    /\ outcome \in {"SyntaxError", "NameError"}
    /\ stdout' = Append(stdout, [kind |-> "syntax_error", exc |-> outcome,
                                 err |-> err, doc |-> NoValue])
    /\ exitcode' = 1
    /\ phase' = "done"
    /\ UNCHANGED <<file, text, lexvars, parsevars, stderr>>

\* main: any other exception is not caught; the interpreter prints the
\* traceback on stderr and exits with status 1.
MainUncaught ==
    /\ phase = "parse"
    /\ outcome \notin {"none", "ok", "SyntaxError", "NameError"}
    /\ stderr' = Append(stderr, [kind |-> "traceback", exc |-> outcome,
                                 err |-> err, doc |-> NoValue])
    /\ exitcode' = 1
    /\ phase' = "done"
    /\ UNCHANGED <<file, text, lexvars, parsevars, stdout>>

\* ------------------------------------------------------------ specification

Next ==
    \/ MainRead
    \/ LexToken
    \/ LexWhitespace
    \/ LexEnd
    \/ ParseLoop
    \/ ParseStore
    \/ ConstEatDef
    \/ ConstEatId
    \/ ConstValue
    \/ ConstStore
    \/ PairEatId
    \/ PairComma
    \/ ValueDispatch
    \/ ValueReturn
    \/ ConstEvalEatDollar
    \/ ConstEvalEatLparen
    \/ ConstEvalEatId
    \/ ConstEvalEatRparen
    \/ ConstEvalLookup
    \/ DictEatLbrace
    \/ DictLoop
    \/ DictStore
    \/ MainOutput
    \/ MainParseError
    \/ MainUncaught

Spec == Init /\ [][Next]_vars

\* The program is sequential: whatever step is enabled is taken.
FairSpec == Spec /\ WF_vars(Next)

\* ------------------------------------------------------------- properties

Def == <<"d", "e", "f">>
Let == <<"l", "e", "t">>

Failed == outcome \notin {"none", "ok"}
ParseEnded == outcome # "none"

\* The characters of the text between token i and the next token (or the
\* end of the text): what the lexer dropped or skipped as whitespace there.
GapAfter(i) ==
    Slice(text, matches[i].end + 1,
          IF i < Len(tokens) THEN matches[i + 1].start ELSE Len(text))

\* A digit was written, and dropped, right after token i.
BareIntAfter(i) == \E j \in 1..Len(GapAfter(i)) : GapAfter(i)[j] \in Digits

\* Token i was consumed as a pair key or as the name of a definition: an ID
\* the parser has eaten that is not the name inside $( ).
KeyOrDefName(i) ==
    /\ i <= pos
    /\ tokens[i].type = "ID"
    /\ (i = 1 \/ tokens[i - 1].type # "LPAREN")

\* Index p of the text lies inside the match of some token.
Covered(p) ==
    \E i \in 1..Len(matches) : matches[i].start < p /\ p <= matches[i].end

\* C1: whenever the parser fails because no token is left where one is
\* required, the failure is a SyntaxError whose found-kind is EOF.  (A
\* failure other than an undefined constant with the cursor at the end of
\* the tokens is a failure for lack of a token.)
C1_EofIsUnexpectedToken ==
    (Failed /\ outcome # "NameError" /\ pos = Len(tokens))
        => (outcome = "SyntaxError" /\ err.found = "EOF")

\* C2: when parsing fails, main has printed exactly one message on stdout,
\* exits with status 1, and no document was emitted.
C2_FailureReportedOnStdout ==
    (phase = "done" /\ file = "ok" /\ Failed)
        => /\ Len(stdout) = 1
           /\ stdout[1].kind = "syntax_error"
           /\ stdout[1].doc = NoValue
           /\ exitcode = 1

ScanStopsAt(p) ==
    /\ lpos <= p
    /\ p <= Len(text)
    /\ \A r \in lpos..(p - 1) : FirstPattern(text, r) = 0

\* The step appends one token of the given type and text, and the scan
\* resumes at index p.
Emits(type, value, p) ==
    /\ Len(tokens') = Len(tokens) + 1
    /\ tokens'[Len(tokens')].type = type
    /\ tokens'[Len(tokens')].value = value
    /\ lpos' = p

\* C7: at a scan position where the text begins with def (let), the step of
\* the lexer emits the keyword DEF (LET) of exactly these three characters
\* and the scan resumes right after them, whatever follows; and no ID token
\* begins with def or let.
C7_KeywordPrefixWins ==
    [][ /\ \A p \in 1..Len(text) :
               (phase = "lex" /\ ScanStopsAt(p))
                   => /\ StartsWith(text, p, Def) => Emits("DEF", Def, p + 3)
                      /\ StartsWith(text, p, Let) => Emits("LET", Let, p + 3)
        /\ \A i \in 1..Len(tokens') :
               tokens'[i].type = "ID"
                   => /\ ~StartsWith(tokens'[i].value, 1, Def)
                      /\ ~StartsWith(tokens'[i].value, 1, Let)
      ]_vars

\* C7 witness: a DEF token immediately followed, with no character between,
\* by an ID token (the text read "def" + identifier characters).
C7_Witness ==
    \E i \in 1..(Len(tokens) - 1) :
        /\ tokens[i].type = "DEF"
        /\ tokens[i + 1].type = "ID"
        /\ matches[i + 1].start = matches[i].end

\* What C8 says of a token list: every token is a non-empty contiguous
\* piece of the text free of whitespace, tokens follow each other in the
\* text without overlap, every token starts where a pattern matches, and
\* every character outside the tokens is whitespace or a character at which
\* no pattern matches.
TokensWellFormed ==
    /\ Len(matches) = Len(tokens)
    /\ \A i \in 1..Len(tokens) :
           /\ 0 <= matches[i].start
           /\ matches[i].start < matches[i].end
           /\ matches[i].end <= Len(text)
           /\ tokens[i].value = Slice(text, matches[i].start + 1, matches[i].end)
           /\ tokens[i].type # "WHITESPACE"
           /\ \A j \in 1..Len(tokens[i].value) : tokens[i].value[j] \notin Spaces
           /\ FirstPattern(text, matches[i].start + 1) # 0
           /\ i < Len(tokens) => matches[i].end <= matches[i + 1].start
    /\ \A p \in 1..Len(text) :
           ~Covered(p) => (text[p] \in Spaces \/ FirstPattern(text, p) = 0)

\* C8: while it runs the lexer raises nothing, moves forward in the text
\* and only appends tokens; the token list it returns is TokensWellFormed;
\* the text and the tokens never change afterwards; and the lexer returns
\* on every text.
C8_TokenizerTotal ==
    /\ [][ /\ (phase = "lex" /\ phase' = "lex") =>
                  /\ outcome' = "none"
                  /\ lpos' > lpos
                  /\ SubSeq(tokens', 1, Len(tokens)) = tokens
           /\ (phase = "lex" /\ phase' # "lex") =>
                  /\ phase' = "parse"
                  /\ outcome' = "none"
                  /\ tokens' = tokens
                  /\ TokensWellFormed'
           /\ phase \in {"parse", "done"} => UNCHANGED <<text, tokens, matches>>
         ]_vars
    /\ <>(phase \in {"parse", "done"})

\* C8 witness: the lexer has finished a text in which a character matching
\* no pattern stood between two tokens.
C8_Witness ==
    /\ phase = "parse"
    /\ \E i \in 1..(Len(tokens) - 1) :
           \E p \in (matches[i].end + 1)..matches[i + 1].start :
               text[p] \notin Spaces /\ FirstPattern(text, p) = 0

\* ------------------------------------- what the tokens denote (reference)

\* Number of braces open before token i.
Depth(i) ==
    Cardinality({j \in 1..(i - 1) : tokens[j].type = "LBRACE"})
        - Cardinality({j \in 1..(i - 1) : tokens[j].type = "RBRACE"})

\* The RBRACE that closes the LBRACE at index l.
MatchingRbrace(l) ==
    CHOOSE j \in (l + 1)..Len(tokens) :
        /\ tokens[j].type = "RBRACE"
        /\ Depth(j) = Depth(l) + 1
        /\ \A r \in (l + 1)..(j - 1) :
               ~(tokens[r].type = "RBRACE" /\ Depth(r) = Depth(l) + 1)

\* Token i opens a definition statement `def name`.
IsDefOf(i, name) ==
    /\ i + 1 <= Len(tokens)
    /\ tokens[i].type = "DEF"
    /\ tokens[i + 1].type = "ID"
    /\ tokens[i + 1].value = name

\* The definition statement opened at token i is complete (its `;` has
\* passed) before token r.
CompleteBefore(i, r) ==
    \E j \in (i + 2)..(r - 1) : tokens[j].type = "SEMICOLON"

\* A statement `def name ... ;` lies wholly before token r.
DefinedBefore(name, r) ==
    \E i \in 1..(r - 1) : IsDefOf(i, name) /\ CompleteBefore(i, r)

\* The last such statement.
LastDef(name, r) ==
    CHOOSE i \in 1..(r - 1) :
        /\ IsDefOf(i, name) /\ CompleteBefore(i, r)
        /\ \A j \in (i + 1)..(r - 1) : ~(IsDefOf(j, name) /\ CompleteBefore(j, r))

\* The pair keys among tokens lo..hi at brace depth d.
PairKeysIn(lo, hi, d) ==
    {i \in lo..hi :
        /\ tokens[i].type = "ID"
        /\ Depth(i) = d
        /\ (i = 1 \/ tokens[i - 1].type \notin {"LPAREN", "DEF"})}

RECURSIVE EvalAt(_)
RECURSIVE ObjectOf(_)

\* The object with the pair keys K: keys in the order of their first
\* occurrence, each with the value written after its last occurrence.
ObjectOf(K) ==
    LET firsts == {i \in K : \A j \in K :
                       tokens[j].value = tokens[i].value => i <= j}
        nth(m) == CHOOSE i \in firsts :
                       Cardinality({j \in firsts : j < i}) = m - 1
        last(i) == CHOOSE j \in K :
                       /\ tokens[j].value = tokens[i].value
                       /\ \A h \in K : tokens[h].value = tokens[i].value => h <= j
    IN  Obj([m \in 1..Cardinality(firsts) |->
                [k |-> tokens[nth(m)].value, v |-> EvalAt(last(nth(m)) + 1)]])

\* The value denoted by the value expression that starts at token k.
EvalAt(k) ==
    CASE tokens[k].type = "NUMBER" -> Num(Float(tokens[k].value))
      [] tokens[k].type = "DOLLAR" ->
             EvalAt(LastDef(tokens[k + 2].value, k) + 2)
      [] tokens[k].type = "LBRACE" ->
             ObjectOf(PairKeysIn(k + 1, MatchingRbrace(k) - 1, Depth(k) + 1))

\* The document the whole token sequence denotes.
RefDocument == ObjectOf(PairKeysIn(1, Len(tokens), 0))

RECURSIVE UniqueKeys(_)
UniqueKeys(v) ==
    \A i \in 1..Len(v.items) :
        /\ \A j \in 1..Len(v.items) : v.items[i].k = v.items[j].k => i = j
        /\ UniqueKeys(v.items[i].v)

\* ---- the grammar of the language, as the sets of positions at which a
\* ---- phrase starting at token i can end (the index after its last token)

TypeAt(i) == IF i >= 1 /\ i <= Len(tokens) THEN tokens[i].type ELSE "EOF"

RECURSIVE EndsValueExpr(_)
RECURSIVE EndsPair(_)
RECURSIVE EndsPairs(_)

\* ValueExpr := ConstRef | ObjectLit | NumberLit
EndsValueExpr(i) ==
    CASE TypeAt(i) = "NUMBER" -> {i + 1}
      [] TypeAt(i) = "DOLLAR" ->
             IF TypeAt(i + 1) = "LPAREN" /\ TypeAt(i + 2) = "ID"
                    /\ TypeAt(i + 3) = "RPAREN"
             THEN {i + 4} ELSE {}
      [] TypeAt(i) = "LBRACE" ->
             {e + 1 : e \in {x \in EndsPairs(i + 1) : TypeAt(x) = "RBRACE"}}
      [] OTHER -> {}

\* Pair := Identifier ValueExpr [',']
EndsPair(i) ==
    IF TypeAt(i) # "ID" THEN {}
    ELSE UNION {{e} \cup (IF TypeAt(e) = "COMMA" THEN {e + 1} ELSE {}) :
                    e \in EndsValueExpr(i + 1)}

\* Pair*
EndsPairs(i) == {i} \cup UNION {EndsPairs(e) : e \in EndsPair(i)}

\* ConstantDef := 'def' Identifier ValueExpr ';'
EndsConstantDef(i) ==
    IF TypeAt(i) = "DEF" /\ TypeAt(i + 1) = "ID"
    THEN {e + 1 : e \in {x \in EndsValueExpr(i + 2) : TypeAt(x) = "SEMICOLON"}}
    ELSE {}

\* Program := (ConstantDef | Pair)*
RECURSIVE EndsProgram(_)
EndsProgram(i) ==
    {i} \cup UNION {EndsProgram(e) : e \in EndsConstantDef(i) \cup EndsPair(i)}

Derivable == (Len(tokens) + 1) \in EndsProgram(1)

\* Every $(name) of the tokens comes after a complete definition of name.
AllRefsDefined ==
    \A i \in 1..Len(tokens) :
        tokens[i].type = "DOLLAR" => DefinedBefore(tokens[i + 2].value, i)

\* ------------------------------------------------- properties of the parser

\* The parser has just consumed a well-formed $(name) and is about to look
\* the name up; the DOLLAR of the reference is token pos - 3.
AtLookup == At("parse_const_eval", "lookup")
RefStart == pos - 3

\* C4: a well-formed reference $(name) resolves if and only if a statement
\* `def name ... ;` lies wholly before it in the tokens; otherwise parsing
\* fails with a NameError naming name (whatever comes later in the input,
\* and whatever pair keys came before).
C4_ReferenceNeedsEarlierDef ==
    [][ AtLookup =>
            IF DefinedBefore(Top.name, RefStart)
            THEN /\ outcome' = "none"
                 /\ stack' = Return
                 /\ ret'.value # NoValue
            ELSE /\ outcome' = "NameError"
                 /\ err'.name = Top.name
      ]_vars

\* C4 witness: a NameError for a name that a later statement defines.
C4_Witness ==
    /\ outcome = "NameError"
    /\ \E i \in (pos + 1)..Len(tokens) : IsDefOf(i, err.name)

\* C5: the names of the Constant Table never go away; storing a definition
\* sets that name to the new value without error and changes neither any
\* other constant nor any object under construction; and a reference
\* yields the value of the last complete definition before it, with the
\* references inside that definition resolved as of its own place.
C5_RedefinitionOverwrites ==
    [][ /\ \A i \in 1..Len(constants) : DictHas(constants', constants[i].k)
        /\ At("parse_constant", "store") =>
               /\ DictHas(constants', Top.name)
               /\ DictGet(constants', Top.name) = ret.value
               /\ \A i \in 1..Len(constants) :
                      constants[i].k # Top.name
                          => DictGet(constants', constants[i].k) = constants[i].v
               /\ \A f \in 1..Len(stack') : stack'[f].dict = stack[f].dict
               /\ TypeAt(pos + 1) = "SEMICOLON" => outcome' = "none"
        /\ (AtLookup /\ outcome' = "none") =>
               ret'.value = EvalAt(LastDef(Top.name, RefStart) + 2)
      ]_vars

\* C5 witness: a successful parse in which a name was defined, referenced,
\* and then defined again with a different value.
C5_Witness ==
    /\ outcome = "ok"
    /\ \E i, r, j \in 1..Len(tokens) :
           /\ i < r /\ r < j
           /\ tokens[i].type = "DEF" /\ tokens[r].type = "DOLLAR"
           /\ IsDefOf(i, tokens[r + 2].value)
           /\ IsDefOf(j, tokens[r + 2].value)
           /\ EvalAt(i + 2) # EvalAt(j + 2)

\* C6: the document of a successful parse is the one the tokens denote:
\* at the top level and in every nested object the keys are unique, stand
\* in the order of their first occurrence at that level, and hold the value
\* of their last occurrence.
C6_OrderedOverwrite ==
    outcome = "ok" => (ret.value = RefDocument /\ UniqueKeys(ret.value))

\* C6 witness: a successful parse with an object literal in which a key
\* occurs, then another key, then the first key again.
C6_Witness ==
    /\ outcome = "ok"
    /\ \E l \in 1..Len(tokens) :
           /\ tokens[l].type = "LBRACE"
           /\ \E i, j, m \in PairKeysIn(l + 1, MatchingRbrace(l) - 1, Depth(l) + 1) :
                  /\ i < j /\ j < m
                  /\ tokens[i].value = tokens[m].value
                  /\ tokens[i].value # tokens[j].value

\* C9: parse returns a document exactly when the tokens are derivable from
\* Program and every reference follows a complete definition of its name;
\* it fails on every other token sequence.
C9_AcceptsExactlyTheGrammar ==
    ParseEnded => (outcome = "ok" <=> (Derivable /\ AllRefsDefined))

\* C9 witness: a successful parse of tokens that end with the optional comma
\* of the last pair and contain a definition and a reference.
C9_Witness ==
    /\ outcome = "ok"
    /\ Len(tokens) > 0
    /\ tokens[Len(tokens)].type = "COMMA"
    /\ \E i, j \in 1..Len(tokens) :
           tokens[i].type = "DEF" /\ tokens[j].type = "DOLLAR"

\* The parser is at a call of eat.
AtEat ==
    \/ At("parse_constant", "eat_def") \/ At("parse_constant", "eat_id")
    \/ At("parse_pair", "eat_id") \/ At("parse_dict", "eat_lbrace")
    \/ At("parse_const_eval", "eat_dollar") \/ At("parse_const_eval", "eat_lparen")
    \/ At("parse_const_eval", "eat_id") \/ At("parse_const_eval", "eat_rparen")

\* The parser is at a loop head and enters the loop body.
StartsIteration ==
    \/ At("parse", "loop") /\ HasToken
    \/ At("parse_dict", "loop") /\ HasToken /\ CurrentToken.type # "RBRACE"

\* C10: the cursor never moves back and moves one token at a time, never
\* past the end; every eat either consumes one token or fails; every loop
\* iteration of parse and parse_dict begins with such an eat; a successful
\* parse ends with every token consumed; and the program always halts.
C10_ParserHalts ==
    /\ [][ /\ pos' \in {pos, pos + 1}
           /\ pos' <= Len(tokens')
           /\ AtEat => \/ pos' = pos + 1 /\ outcome' = "none"
                       \/ pos' = pos /\ outcome' \notin {"none", "ok"}
           /\ StartsIteration =>
                  /\ Len(stack') = Len(stack) + 1
                  /\ stack'[Len(stack')].pc \in {"eat_def", "eat_id"}
         ]_vars
    /\ [](outcome = "ok" => pos = Len(tokens))
    /\ <>(phase = "done")

\* C10 witness: a successful parse that consumed all of a token sequence
\* with a definition, a reference and an object literal.
C10_Witness ==
    /\ phase = "done"
    /\ outcome = "ok"
    /\ pos = Len(tokens)
    /\ \E i, j, k \in 1..Len(tokens) :
           /\ tokens[i].type = "DEF"
           /\ tokens[j].type = "DOLLAR"
           /\ tokens[k].type = "RBRACE"

====
